---- MODULE Spec2Model ----
(***************************************************************************)
(* Model of lib/anc_masc_ptb_extract.py: extract_cnf_from_anc_masc_ptb.   *)
(* A corpus is a sequence of files, a file a sequence of parse trees.      *)
(* Each tree is normalised (right-factored binarisation), its productions  *)
(* are tallied into the set `terminal` and the two-level map `binary`,     *)
(* and the two sections TERMINALS and BINARIES are printed.                *)
(***************************************************************************)
EXTENDS Integers, Sequences, FiniteSets, TLC

\* corpus            the files of the corpus and their parsed sentences
\* fi, si, pc        the position of the two loops and of the run
\* sent, prods, pidx the current tree, its productions, the production loop index
\* terminal, binary  the set of terminal rules and the map lhs -> rule -> count
\* out               the lines printed so far
\* lhsLeft, curLhs, num_rules, rulesLeft   the state of the two output loops
\* visited, raised   history: the positions entered, and those whose try raised
VARIABLES corpus, fi, si, pc, sent, prods, pidx, terminal, binary,
          out, lhsLeft, curLhs, num_rules, rulesLeft, visited, raised

vars == <<corpus, fi, si, pc, sent, prods, pidx, terminal, binary,
          out, lhsLeft, curLhs, num_rules, rulesLeft, visited, raised>>

\* ------------------------------------------------------------------ bounds
MaxFiles == 2
MaxSents == 2
MaxTotal == 3

\* ------------------------------------------------------------------ trees
\* A parse tree node: a label and its children; a leaf is a token.
Leaf(w) == [label |-> w, kids |-> <<>>, leaf |-> TRUE]
Node(l, ks) == [label |-> l, kids |-> ks, leaf |-> FALSE]

\* (S (A a) (B b))
TreeBin == Node("S", <<Node("A", <<Leaf("a")>>), Node("B", <<Leaf("b")>>)>>)
\* (S (S (A a)) (S (A a)) (B b))
TreeNary == Node("S", <<Node("S", <<Node("A", <<Leaf("a")>>)>>),
                        Node("S", <<Node("A", <<Leaf("a")>>)>>),
                        Node("B", <<Leaf("b")>>)>>)
\* (S (A a) b (B b)) : a bare token among more than two children
TreeBad == Node("S", <<Node("A", <<Leaf("a")>>), Leaf("b"), Node("B", <<Leaf("b")>>)>>)
\* (CODE (A a))
TreeCode == Node("CODE", <<Node("A", <<Leaf("a")>>)>>)

\* The parsed sentences a file of the corpus may hold.
Sentences == {TreeBin, TreeNary, TreeBad, TreeCode}

SeqsUpTo(S, n) == UNION {[1..k -> S] : k \in 0..n}

\* the numbers of sentences of the files: at most MaxFiles files of one to
\* MaxSents sentences each, MaxTotal sentences in all
RECURSIVE SumSeq(_, _)
SumSeq(s, i) == IF i > Len(s) THEN 0 ELSE s[i] + SumSeq(s, i + 1)
Shapes == {sh \in SeqsUpTo(1..MaxSents, MaxFiles) : SumSeq(sh, 1) <= MaxTotal}

\* reader.fileids() x reader.parsed_sents(fileid)
RECURSIVE CorporaOf(_, _)
CorporaOf(sh, i) ==
    IF i > Len(sh) THEN {<<>>}
    ELSE {<<file>> \o rest : file \in [1..sh[i] -> Sentences], rest \in CorporaOf(sh, i + 1)}
Corpora == UNION {CorporaOf(sh, 1) : sh \in Shapes}

\* ------------------------------------------------------------------ library
\* The outcome of a call that raised.
Raise == [label |-> "<exception>", kids |-> <<>>, leaf |-> TRUE]

\* "-".join(labels[i:])
RECURSIVE JoinFrom(_, _, _)
JoinFrom(labels, i, sep) ==
    IF i > Len(labels) THEN ""
    ELSE IF i = Len(labels) THEN labels[i]
    ELSE labels[i] \o sep \o JoinFrom(labels, i + 1, sep)

\* Right factoring of a node with more than two children:
\* L -> c1 L|<c2-..-cn>, L|<c2-..-cn> -> c2 L|<c3-..-cn>, ..., -> c(n-1) cn
RECURSIVE Factor(_, _, _, _)
Factor(head, orig, ks, i) ==
    IF Len(ks) - i + 1 <= 2 THEN Node(head, SubSeq(ks, i, Len(ks)))
    ELSE Node(head,
              <<ks[i],
                Factor(orig \o "|<" \o JoinFrom([k \in 1..Len(ks) |-> ks[k].label], i + 1, "-") \o ">",
                       orig, ks, i + 1)>>)

\* Tree.chomsky_normal_form(): factor='right', horzMarkov=None, vertMarkov=0.
\* Every node with more than two children is binarised; child.label() raises
\* on a bare token among them; unary nodes are left as they are.
RECURSIVE chomsky_normal_form(_)
chomsky_normal_form(t) ==
    IF t.leaf THEN t
    ELSE LET ks == [k \in 1..Len(t.kids) |-> chomsky_normal_form(t.kids[k])]
         IN  IF Len(t.kids) > 2 /\ \E k \in 1..Len(t.kids) : t.kids[k].leaf
             THEN Raise
             ELSE IF \E k \in 1..Len(ks) : ks[k] = Raise THEN Raise
             ELSE IF Len(ks) > 2 THEN Factor(t.label, t.label, ks, 1)
             ELSE Node(t.label, ks)

\* Production(Nonterminal(label), child names)
Production(t) ==
    [lhs |-> t.label,
     rhs |-> [k \in 1..Len(t.kids) |-> [sym |-> t.kids[k].label, term |-> t.kids[k].leaf]]]

RECURSIVE FlatProds(_, _)
RECURSIVE productions(_)
\* Tree.productions(): the node's production, then those of its subtrees.
productions(t) == <<Production(t)>> \o FlatProds(t.kids, 1)
FlatProds(ks, i) ==
    IF i > Len(ks) THEN <<>>
    ELSE IF ks[i].leaf THEN FlatProds(ks, i + 1)
    ELSE productions(ks[i]) \o FlatProds(ks, i + 1)

\* variant: is_nonlexical() is tested instead
is_lexical_negated(p) == \A k \in 1..Len(p.rhs) : ~p.rhs[k].term

\* Production.is_lexical(): some right-hand-side element is a terminal.
is_lexical(p) == \E k \in 1..Len(p.rhs) : p.rhs[k].term

\* unicode_repr of one right-hand-side element
sym_repr(e) == IF e.term THEN "'" \o e.sym \o "'" ELSE e.sym

\* Nonterminal.unicode_repr()
lhs_repr(p) == p.lhs

\* Production.unicode_repr(): "LHS -> R1 R2 ..."
unicode_repr(p) ==
    lhs_repr(p) \o " -> " \o JoinFrom([k \in 1..Len(p.rhs) |-> sym_repr(p.rhs[k])], 1, " ")

\* ------------------------------------------------------------------ tallies
\* dict()
EmptyDict == [k \in {} |-> 0]

\* terminal.add(p.unicode_repr())                      (line 18)
TallyTerminal(term, p) == term \cup {unicode_repr(p)}

\* variant: binary[lhs] = dict() without the membership test
EnsureLhs_reset(bin, lhs) == (lhs :> EmptyDict) @@ bin

\* binary[lhs] = dict() when lhs is new                (lines 23-24)
EnsureLhs(bin, lhs) == IF lhs \notin DOMAIN bin THEN bin @@ (lhs :> EmptyDict) ELSE bin

\* variant: a rule already present is set to 1 again instead of incremented
CountRule_noIncrement(rules, rule) == (rule :> 1) @@ rules

\* variant: a new rule starts at 0
CountRule_fromZero(rules, rule) ==
    IF rule \notin DOMAIN rules THEN rules @@ (rule :> 0)
    ELSE [rules EXCEPT ![rule] = @ + 1]

\* binary[lhs][rule] = 1, or += 1                      (lines 25-28)
CountRule(rules, rule) ==
    IF rule \notin DOMAIN rules THEN rules @@ (rule :> 1)
    ELSE [rules EXCEPT ![rule] = @ + 1]

\* the else branch of the production loop             (lines 21-28)
TallyBinary(bin, p) ==
    LET lhs == lhs_repr(p)
        rule == unicode_repr(p)
    IN  [EnsureLhs(bin, lhs) EXCEPT ![lhs] = CountRule(@, rule)]

\* variant: the label test is missing
IsCounted_always(t) == TRUE

\* sent.label() != 'CODE'                              (line 13)
IsCounted(t) == t.label # "CODE"

\* ------------------------------------------------------------------ the counting pass as a function
RECURSIVE TallyAll(_, _, _)
\* the production loop over ps[i..], from the state st = <<terminal, binary>>
TallyAll(st, ps, i) ==
    IF i > Len(ps) THEN st
    ELSE TallyAll(IF is_lexical(ps[i])
                  THEN <<TallyTerminal(st[1], ps[i]), st[2]>>
                  ELSE <<st[1], TallyBinary(st[2], ps[i])>>,
                  ps, i + 1)

\* the body of the sentence loop
SentenceStep(st, t) ==
    IF ~IsCounted(t) THEN st
    ELSE LET r == chomsky_normal_form(t)
         IN  IF r = Raise THEN st ELSE TallyAll(st, productions(r), 1)

RECURSIVE CountFrom(_, _, _)
CountFrom(st, ts, i) == IF i > Len(ts) THEN st ELSE CountFrom(SentenceStep(st, ts[i]), ts, i + 1)

\* the state the counting pass leaves after the sentences ts, in this order
CountPass(ts) == CountFrom(<<{}, EmptyDict>>, ts, 1)

\* ------------------------------------------------------------------ output
RECURSIVE SumOver(_, _)
SumOver(f, S) ==
    IF S = {} THEN 0
    ELSE LET k == CHOOSE x \in S : TRUE IN f[k] + SumOver(f, S \ {k})

\* variant: num_rules = len(rules)
NumRules_len(rules) == Cardinality(DOMAIN rules)

\* num_rules = sum([x for x in rules.itervalues()])    (line 39)
NumRules(rules) == SumOver(rules, DOMAIN rules)

RECURSIVE GCD(_, _)
GCD(a, b) == IF b = 0 THEN a ELSE GCD(b, a % b)

\* 1.0 * count / num_rules, as the fraction in lowest terms    (line 42)
Frequency(count, n) == LET g == GCD(count, n) IN <<count \div g, n \div g>>

NoNumber == <<0, 0>>
\* one printed line: its text and, for a BINARIES item, the frequency after it
Line(text) == [text |-> text, freq |-> NoNumber]
Item(rule, freq) == [text |-> rule, freq |-> freq]

\* the orders in which a set may be iterated
Orders(S) == {f \in [1..Cardinality(S) -> S] : \A i, j \in 1..Cardinality(S) : f[i] = f[j] => i = j}

\* print "\n".join(terminal): one line per terminal, an empty line for none
JoinLines(order) == IF Len(order) = 0 THEN <<Line("")>> ELSE [i \in 1..Len(order) |-> Line(order[i])]

\* ------------------------------------------------------------------ state machine
Init ==
    /\ corpus \in Corpora
    /\ fi = 0
    /\ si = 0
    /\ pc = "for_file"
    /\ sent = Raise
    /\ prods = <<>>
    /\ pidx = 0
    /\ terminal = {}
    /\ binary = EmptyDict
    /\ out = <<>>
    /\ lhsLeft = {}
    /\ curLhs = ""
    /\ num_rules = 0
    /\ rulesLeft = {}
    /\ visited = {}
    /\ raised = {}

\* variant: print "TERMINALS" is indented into the file loop
ForFile_printsEarly ==
    /\ pc = "for_file"
    /\ IF fi < Len(corpus)
       THEN /\ fi' = fi + 1
            /\ si' = 0
            /\ pc' = "for_sent"
            /\ out' = Append(out, Line("TERMINALS"))
       ELSE /\ pc' = "join_terminals"
            /\ UNCHANGED <<fi, si, out>>
    /\ UNCHANGED <<corpus, sent, prods, pidx, terminal, binary, lhsLeft,
                   curLhs, num_rules, rulesLeft, visited, raised>>

\* for fileid in reader.fileids()
ForFile ==
    /\ pc = "for_file"
    /\ IF fi < Len(corpus)
       THEN /\ fi' = fi + 1
            /\ si' = 0
            /\ pc' = "for_sent"
       ELSE /\ pc' = "print_terminals"
            /\ UNCHANGED <<fi, si>>
    /\ UNCHANGED <<corpus, sent, prods, pidx, terminal, binary, out, lhsLeft,
                   curLhs, num_rules, rulesLeft, visited, raised>>

\* for sent in reader.parsed_sents(fileid)
ForSent ==
    /\ pc = "for_sent"
    /\ IF si < Len(corpus[fi])
       THEN /\ si' = si + 1
            /\ sent' = corpus[fi][si + 1]
            /\ visited' = visited \cup {<<fi, si + 1>>}
            /\ pc' = "label"
       ELSE /\ pc' = "for_file"
            /\ UNCHANGED <<si, sent, visited>>
    /\ UNCHANGED <<corpus, fi, prods, pidx, terminal, binary, out, lhsLeft,
                   curLhs, num_rules, rulesLeft, raised>>

\* if sent.label() != 'CODE'
CheckLabel ==
    /\ pc = "label"
    /\ pc' = IF IsCounted(sent) THEN "try" ELSE "for_sent"
    /\ UNCHANGED <<corpus, fi, si, sent, prods, pidx, terminal, binary, out,
                   lhsLeft, curLhs, num_rules, rulesLeft, visited, raised>>

\* variant: the production loop runs inside the try before the tree is
\* normalised, so a sentence that then raises has already been tallied
Normalize_tallyFirst ==
    /\ pc = "try"
    /\ LET st == TallyAll(<<terminal, binary>>, productions(sent), 1)
           r == chomsky_normal_form(sent)
       IN  /\ terminal' = st[1]
           /\ binary' = st[2]
           /\ IF r = Raise
              THEN /\ pc' = "except"
                   /\ raised' = raised \cup {<<fi, si>>}
              ELSE /\ pc' = "for_sent"
                   /\ UNCHANGED raised
    /\ UNCHANGED <<corpus, fi, si, sent, prods, pidx, out, lhsLeft,
                   curLhs, num_rules, rulesLeft, visited>>

\* try: sent.chomsky_normal_form()
\* The call either raises or leaves the binarised tree. The later calls of the
\* try block (productions, is_lexical, lhs, unicode_repr) do not raise on a
\* tree whose labels and tokens are strings, as every parsed tree's are.
Normalize ==
    /\ pc = "try"
    /\ LET r == chomsky_normal_form(sent)
       IN  IF r = Raise
           THEN /\ pc' = "except"
                /\ raised' = raised \cup {<<fi, si>>}
                /\ UNCHANGED sent
           ELSE /\ pc' = "productions"
                /\ sent' = r
                /\ UNCHANGED raised
    /\ UNCHANGED <<corpus, fi, si, prods, pidx, terminal, binary, out, lhsLeft,
                   curLhs, num_rules, rulesLeft, visited>>

\* for p in sent.productions()
Productions ==
    /\ pc = "productions"
    /\ prods' = productions(sent)
    /\ pidx' = 1
    /\ pc' = "tally"
    /\ UNCHANGED <<corpus, fi, si, sent, terminal, binary, out, lhsLeft,
                   curLhs, num_rules, rulesLeft, visited, raised>>

\* one iteration of the production loop
Tally ==
    /\ pc = "tally"
    /\ pidx <= Len(prods)
    /\ IF is_lexical(prods[pidx])
       THEN /\ terminal' = TallyTerminal(terminal, prods[pidx])
            /\ UNCHANGED binary
       ELSE /\ binary' = TallyBinary(binary, prods[pidx])
            /\ UNCHANGED terminal
    /\ pidx' = pidx + 1
    /\ UNCHANGED <<corpus, fi, si, pc, sent, prods, out, lhsLeft, curLhs,
                   num_rules, rulesLeft, visited, raised>>

\* the production loop is exhausted
TallyDone ==
    /\ pc = "tally"
    /\ pidx > Len(prods)
    /\ pc' = "for_sent"
    /\ UNCHANGED <<corpus, fi, si, sent, prods, pidx, terminal, binary, out,
                   lhsLeft, curLhs, num_rules, rulesLeft, visited, raised>>

\* variant: the handler re-raises and the run aborts
Except_reraise ==
    /\ pc = "except"
    /\ pc' = "aborted"
    /\ UNCHANGED <<corpus, fi, si, sent, prods, pidx, terminal, binary, out,
                   lhsLeft, curLhs, num_rules, rulesLeft, visited, raised>>

\* except Exception: pass
Except ==
    /\ pc = "except"
    /\ pc' = "for_sent"
    /\ UNCHANGED <<corpus, fi, si, sent, prods, pidx, terminal, binary, out,
                   lhsLeft, curLhs, num_rules, rulesLeft, visited, raised>>

\* print "TERMINALS"
PrintTerminalsHeader ==
    /\ pc = "print_terminals"
    /\ out' = Append(out, Line("TERMINALS"))
    /\ pc' = "join_terminals"
    /\ UNCHANGED <<corpus, fi, si, sent, prods, pidx, terminal, binary,
                   lhsLeft, curLhs, num_rules, rulesLeft, visited, raised>>

\* print "\n".join(terminal)
PrintTerminals ==
    /\ pc = "join_terminals"
    /\ \E order \in Orders(terminal) : out' = out \o JoinLines(order)
    /\ pc' = "print_blank"
    /\ UNCHANGED <<corpus, fi, si, sent, prods, pidx, terminal, binary,
                   lhsLeft, curLhs, num_rules, rulesLeft, visited, raised>>

\* print
PrintBlank ==
    /\ pc = "print_blank"
    /\ out' = Append(out, Line(""))
    /\ pc' = "print_binaries"
    /\ UNCHANGED <<corpus, fi, si, sent, prods, pidx, terminal, binary,
                   lhsLeft, curLhs, num_rules, rulesLeft, visited, raised>>

\* print "BINARIES"
PrintBinariesHeader ==
    /\ pc = "print_binaries"
    /\ out' = Append(out, Line("BINARIES"))
    /\ lhsLeft' = DOMAIN binary
    /\ pc' = "for_lhs"
    /\ UNCHANGED <<corpus, fi, si, sent, prods, pidx, terminal, binary,
                   curLhs, num_rules, rulesLeft, visited, raised>>

\* for (lhs, rules) in binary.iteritems(): num_rules = sum(...)
ForLhs ==
    /\ pc = "for_lhs"
    /\ IF lhsLeft = {}
       THEN /\ pc' = "done"
            /\ UNCHANGED <<lhsLeft, curLhs, num_rules, rulesLeft>>
       ELSE \E lhs \in lhsLeft :
            /\ curLhs' = lhs
            /\ lhsLeft' = lhsLeft \ {lhs}
            /\ num_rules' = NumRules(binary[lhs])
            /\ rulesLeft' = DOMAIN binary[lhs]
            /\ pc' = "for_rule"
    /\ UNCHANGED <<corpus, fi, si, sent, prods, pidx, terminal, binary, out,
                   visited, raised>>

\* for (rule, count) in rules.iteritems(): print rule, (1.0 * count / num_rules)
PrintRule ==
    /\ pc = "for_rule"
    /\ \E rule \in rulesLeft :
          /\ out' = Append(out, Item(rule, Frequency(binary[curLhs][rule], num_rules)))
          /\ rulesLeft' = rulesLeft \ {rule}
    /\ UNCHANGED <<corpus, fi, si, pc, sent, prods, pidx, terminal, binary,
                   lhsLeft, curLhs, num_rules, visited, raised>>

\* the rules of the current left-hand side are exhausted
RulesDone ==
    /\ pc = "for_rule"
    /\ rulesLeft = {}
    /\ pc' = "for_lhs"
    /\ UNCHANGED <<corpus, fi, si, sent, prods, pidx, terminal, binary, out,
                   lhsLeft, curLhs, num_rules, rulesLeft, visited, raised>>

Next ==
    \/ ForFile
    \/ ForSent
    \/ CheckLabel
    \/ Normalize
    \/ Productions
    \/ Tally
    \/ TallyDone
    \/ Except
    \/ PrintTerminalsHeader
    \/ PrintTerminals
    \/ PrintBlank
    \/ PrintBinariesHeader
    \/ ForLhs
    \/ PrintRule
    \/ RulesDone

Spec == Init /\ [][Next]_vars

\* The script runs to completion: every enabled step is eventually taken.
LiveSpec == Init /\ [][Next]_vars /\ WF_vars(Next)

\* ------------------------------------------------------------------ vocabulary of the properties
RECURSIVE FlatIdx(_, _)
\* the positions <<file, sentence>> of the corpus, in the order of the two loops
FlatIdx(c, f) ==
    IF f > Len(c) THEN <<>>
    ELSE [s \in 1..Len(c[f]) |-> <<f, s>>] \o FlatIdx(c, f + 1)

AllIdx == {<<f, s>> : f \in 1..MaxFiles, s \in 1..MaxSents} \cap
          {<<f, s>> \in (1..Len(corpus)) \X (1..MaxSents) : s <= Len(corpus[f])}

TreeAt(ix) == corpus[ix[1]][ix[2]]

InVisited(ix) == ix \in visited
VisitedIdx == SelectSeq(FlatIdx(corpus, 1), InVisited)
TreesOf(ixs) == [k \in 1..Len(ixs) |-> TreeAt(ixs[k])]

Counting == pc \in {"for_file", "for_sent", "label", "try", "productions", "tally", "except"}
\* in the counting pass, with the current sentence, if any, dealt with completely
\* (at "for_file" past the last file the whole pass is over)
AtBoundary == pc \in {"for_file", "for_sent", "except"}

\* positions whose sentence went through the production loop
Processed == {ix \in visited : TreeAt(ix).label # "CODE" /\ ix \notin raised}

\* the productions of a binarised sentence, as a set of <<position, production>>
ProdsAt(ix) == LET ps == productions(chomsky_normal_form(TreeAt(ix)))
               IN  {<<ix, k, ps[k]>> : k \in 1..Len(ps)}
ProcessedProds == UNION {ProdsAt(ix) : ix \in Processed}

HasTerminal(p) == \E k \in 1..Len(p.rhs) : p.rhs[k].term

IsItem(l) == l.freq # NoNumber
Items == {i \in 1..Len(out) : IsItem(out[i])}
IndexOf(text) == {i \in 1..Len(out) : out[i] = Line(text)}

\* ------------------------------------------------------------------ C1
RECURSIVE ProdDen(_)
ProdDen(S) == IF S = {} THEN 1
              ELSE LET i == CHOOSE x \in S : TRUE IN out[i].freq[2] * ProdDen(S \ {i})
RECURSIVE ScaledSum(_, _)
ScaledSum(S, d) == IF S = {} THEN 0
                   ELSE LET i == CHOOSE x \in S : TRUE
                        IN  out[i].freq[1] * (d \div out[i].freq[2]) + ScaledSum(S \ {i}, d)
ItemsOf(lhs) == {i \in Items : out[i].text \in DOMAIN binary[lhs]}

C2_ExceptionSwallowed ==
    (pc = "except") ~>
        (/\ pc = "done"
         /\ visited = AllIdx
         /\ IndexOf("TERMINALS") # {}
         /\ IndexOf("BINARIES") # {})

C2_Witness ==
    /\ pc = "done"
    /\ \E r \in raised : \E v \in Processed : v[1] > r[1] \/ (v[1] = r[1] /\ v[2] > r[2])

\* ------------------------------------------------------------------ C3
NotRaised(ix) == ix \notin raised

\* C3: at every sentence boundary the tallies are those of the sentences
\* visited so far with the ones that raised left out: a sentence that raised
\* has added nothing.
C3_RaisingSentenceSkipped ==
    AtBoundary =>
        <<terminal, binary>> = CountPass(TreesOf(SelectSeq(VisitedIdx, NotRaised)))

C3_Witness ==
    /\ pc = "for_sent"
    /\ <<fi, si>> \in raised
    /\ terminal # {}
    /\ binary # EmptyDict

\* ------------------------------------------------------------------ C4
AllProductions ==
    UNION {LET r == chomsky_normal_form(t)
           IN  IF r = Raise THEN {} ELSE {productions(r)[k] : k \in 1..Len(productions(r))}
           : t \in Sentences}
StrictlyBinary(p) == Len(p.rhs) = 2 /\ \A k \in 1..2 : ~p.rhs[k].term
BinaryRuleStrings == {unicode_repr(p) : p \in {q \in AllProductions : StrictlyBinary(q)}}

\* C4: every rule printed in the BINARIES section has exactly two
\* non-terminal symbols on its right-hand side.
C4_PrintedRulesBinary == \A i \in Items : out[i].text \in BinaryRuleStrings

\* ------------------------------------------------------------------ C5
\* C5: nothing is printed during the counting pass; the first line is
\* TERMINALS; no BINARIES item precedes any other line; the finished output is
\* TERMINALS, one line per terminal (an empty line when there is none), an
\* empty separator line, BINARIES, and then only 'rule frequency' items.
C5_OutputLayout ==
    /\ Counting => out = <<>>
    /\ out # <<>> => out[1] = Line("TERMINALS")
    /\ \A i \in Items : \A j \in 1..Len(out) : ~IsItem(out[j]) => j < i
    /\ Items # {} => IndexOf("BINARIES") # {}
    /\ pc = "done" =>
          /\ Cardinality(IndexOf("TERMINALS")) = 1
          /\ Cardinality(IndexOf("BINARIES")) = 1
          /\ LET b == CHOOSE i \in IndexOf("BINARIES") : TRUE
             IN  /\ b >= 4
                 /\ out[b - 1] = Line("")
                 /\ {out[i] : i \in 2..(b - 2)} =
                       IF terminal = {} THEN {Line("")} ELSE {Line(t) : t \in terminal}
                 /\ b - 3 = IF terminal = {} THEN 1 ELSE Cardinality(terminal)
                 /\ \A i \in (b + 1)..Len(out) : IsItem(out[i])
                 /\ Len(out) - b = Cardinality(UNION {DOMAIN binary[lhs] : lhs \in DOMAIN binary})

C5_Witness ==
    /\ pc = "done"
    /\ Cardinality(terminal) >= 2
    /\ Cardinality(Items) >= 3

\* ------------------------------------------------------------------ C6
Occ(lhs, r) ==
    Cardinality({x \in ProcessedProds :
                    ~HasTerminal(x[3]) /\ x[3].lhs = lhs /\ unicode_repr(x[3]) = r})

\* C6: at every sentence boundary binary[lhs][r] is the number of occurrences
\* of the non-lexical production r with left-hand side lhs in the processed
\* sentences, and every such production is stored under its left-hand side.
C6_CountsAreOccurrences ==
    AtBoundary =>
        /\ \A lhs \in DOMAIN binary : \A r \in DOMAIN binary[lhs] :
              binary[lhs][r] = Occ(lhs, r)
        /\ \A x \in ProcessedProds :
              ~HasTerminal(x[3]) =>
                  /\ x[3].lhs \in DOMAIN binary
                  /\ unicode_repr(x[3]) \in DOMAIN binary[x[3].lhs]

C6_Witness ==
    /\ pc = "for_file"
    /\ fi = Len(corpus)
    /\ \E lhs \in DOMAIN binary : \E r \in DOMAIN binary[lhs] :
          /\ binary[lhs][r] >= 3
          /\ Cardinality(DOMAIN binary[lhs]) >= 2
    /\ Cardinality(DOMAIN binary) >= 2

\* ------------------------------------------------------------------ C7
LexicalStrings == {unicode_repr(p) : p \in {q \in AllProductions : HasTerminal(q)}}

\* C7: at every sentence boundary the terminal set holds exactly the lexical
\* productions of the processed sentences, no rule of the binary map is a
\* lexical production, and the finished output shows each terminal once.
C7_TerminalsAreLexical ==
    /\ AtBoundary =>
          /\ terminal = {unicode_repr(x[3]) : x \in {y \in ProcessedProds : HasTerminal(y[3])}}
          /\ \A x \in ProcessedProds : ~HasTerminal(x[3]) => unicode_repr(x[3]) \notin terminal
    /\ \A lhs \in DOMAIN binary : DOMAIN binary[lhs] \cap LexicalStrings = {}
    /\ pc = "done" =>
          /\ \A t \in terminal : Cardinality(IndexOf(t)) = 1
          /\ terminal = {unicode_repr(x[3]) : x \in {y \in ProcessedProds : HasTerminal(y[3])}}

C7_Witness ==
    /\ pc = "done"
    /\ raised # {}
    /\ Cardinality(terminal) = 2
    /\ Cardinality({x \in ProcessedProds : HasTerminal(x[3])}) >= 5
    /\ binary # EmptyDict

\* ------------------------------------------------------------------ C8
NotCode(ix) == TreeAt(ix).label # "CODE"

\* C8: a sentence labelled CODE never enters the try block, and at every
\* sentence boundary the tallies are those of the visited sentences with the
\* CODE sentences removed.
C8_CodeSentencesIgnored ==
    /\ pc \in {"try", "productions", "tally", "except"} => TreeAt(<<fi, si>>).label # "CODE"
    /\ AtBoundary =>
          <<terminal, binary>> = CountPass(TreesOf(SelectSeq(VisitedIdx, NotCode)))

C8_Witness ==
    /\ pc = "for_sent"
    /\ si >= 1
    /\ TreeAt(<<fi, si>>).label = "CODE"
    /\ terminal # {}
    /\ binary # EmptyDict

Flat == TreesOf(FlatIdx(corpus, 1))

\* C10: when the counting pass ends, the terminal set and the binary map are
\* those the pass would have produced for the same sentences in any other
\* order.
C10_OrderIndependent ==
    pc = "print_terminals" =>
        \A perm \in Orders(1..Len(Flat)) :
            CountPass([k \in 1..Len(Flat) |-> Flat[perm[k]]]) = <<terminal, binary>>

C10_Witness ==
    /\ pc = "print_terminals"
    /\ Len(Flat) = 3
    /\ Cardinality({Flat[k] : k \in 1..3}) = 3
    /\ raised # {}
    /\ \E lhs \in DOMAIN binary : Cardinality(DOMAIN binary[lhs]) >= 2

====
